---- MODULE Spec2Model ----
(***************************************************************************)
(* Turn-based combat core of Ruines-Ascension: Resource pools, Entity,     *)
(* Equipment (durability, bonus toggling), Player equip/unequip and the    *)
(* CombatEngine.resolve_turn resolver, as state machines over the objects' *)
(* fields.                                                                 *)
(***************************************************************************)
EXTENDS Integers, Sequences, FiniteSets, TLC

----------------------------------------------------------------------------
(* Bounds of the model *)

\* largest new_max handed to Equipment.set_quality
MaxQuality == 3

\* largest amount handed to Equipment.degrade / Equipment.repair
MaxAmount == 2

\* the random source: rng.random() yields roll / RollDen, roll in Rolls
RollDen == 10

Rolls == {0, 5}

\* largest max_stacks handed to EffectManager.apply
MaxStacks == 2

\* most copies of effects the registry is made to hold by direct calls of
\* EffectManager.apply
MaxCopies == 3

\* amounts handed to Resource.add / Resource.remove: -MaxDelta..MaxDelta
MaxDelta == 2

\* largest new_max handed to Resource.set_maximum
MaxNewMax == 2

\* deepest zone level GameLoop.run is followed to
MaxLevel == 3

----------------------------------------------------------------------------
(* Objects *)

\* Python's None
None == "None"

\* the value v returned by a call, as ret holds it
Returned(v) == [value |-> v]

\* math.inf as a durability (never reached by any arithmetic of the model)
Inf == 1000000

Entities == {"player", "enemy"}

SLOTS == <<"weapon", "armor", "artifact">>

\* NO_EQUIP: the shared placeholder set a Player starts with
NO_EQUIP == [weapon |-> "main_nue", armor |-> "corp_nu", artifact |-> "confiance"]

\* the items a player can equip from the inventory
Gear == {"sword", "shield"}

\* constructor arguments of every Equipment object of the model
ItemDef ==
  [ sword     |-> [kind |-> "weapon",   durability_max |-> 1, bonus_attack |-> 5, bonus_defense |-> 0,
                   atk_pct |-> 0, def_pct |-> 0, lck_pct |-> 0],
    shield    |-> [kind |-> "armor",    durability_max |-> 2, bonus_attack |-> 0, bonus_defense |-> 3,
                   atk_pct |-> 0, def_pct |-> 0, lck_pct |-> 0],
    main_nue  |-> [kind |-> "weapon",   durability_max |-> 1, bonus_attack |-> 0, bonus_defense |-> 0,
                   atk_pct |-> 0, def_pct |-> 0, lck_pct |-> 0],
    corp_nu   |-> [kind |-> "armor",    durability_max |-> 1, bonus_attack |-> 0, bonus_defense |-> 0,
                   atk_pct |-> 0, def_pct |-> 0, lck_pct |-> 0],
    confiance |-> [kind |-> "artifact", durability_max |-> Inf, bonus_attack |-> 0, bonus_defense |-> 0,
                   atk_pct |-> 0, def_pct |-> 0, lck_pct |-> 0],
    membre    |-> [kind |-> "weapon",   durability_max |-> Inf, bonus_attack |-> 0, bonus_defense |-> 0,
                   atk_pct |-> 0, def_pct |-> 0, lck_pct |-> 0],
    chair     |-> [kind |-> "armor",    durability_max |-> Inf, bonus_attack |-> 0, bonus_defense |-> 0,
                   atk_pct |-> 0, def_pct |-> 0, lck_pct |-> 0],
    malice    |-> [kind |-> "artifact", durability_max |-> Inf, bonus_attack |-> 0, bonus_defense |-> 0,
                   atk_pct |-> 0, def_pct |-> 0, lck_pct |-> 0],
    amulet    |-> [kind |-> "artifact", durability_max |-> 1, bonus_attack |-> 0, bonus_defense |-> 0,
                   atk_pct |-> 1, def_pct |-> 1, lck_pct |-> 1] ]

ItemIds == DOMAIN ItemDef

\* references to Effect objects: the templates held by the attacks, then the
\* objects that copying allocates
TemplateRefs == 1..2

InstanceRefs == 3..8

Refs == TemplateRefs \cup InstanceRefs

\* a reference that holds no object
Free == [cls |-> None, name |-> None, duration |-> 0, potency |-> 0, target |-> None]

\* PoisonEffect("Poison", 2, 10)
PoisonTemplate ==
  [cls |-> "PoisonEffect", name |-> "Poison", duration |-> 2, potency |-> 10, target |-> "target"]

\* AttackBuffEffect("Bénédiction d'attaque", 2, 3)
BlessingTemplate ==
  [cls |-> "AttackBuffEffect", name |-> "Benediction d'attaque", duration |-> 2, potency |-> 3,
   target |-> "self"]

\* Attack descriptors (after __post_init__ clamping); crit_multiplier in
\* tenths, ignore_defense_pct in percent, effects as references
Attacks ==
  [ basic |-> [base_damage |-> 6, variance |-> 0, cost |-> 0, crit_multiplier10 |-> 20,
               ignore_defense_pct |-> 0, true_damage |-> 0, effects |-> <<>>,
               target |-> "enemy"],
    heavy |-> [base_damage |-> 6, variance |-> 1, cost |-> 5, crit_multiplier10 |-> 15,
               ignore_defense_pct |-> 100, true_damage |-> 0, effects |-> <<2>>,
               target |-> "self"],
    skill |-> [base_damage |-> 0, variance |-> 0, cost |-> 2, crit_multiplier10 |-> 30,
               ignore_defense_pct |-> 0, true_damage |-> 6, effects |-> <<1>>,
               target |-> "enemy"] ]

AttackIds == DOMAIN Attacks

\* stats of the player after construction (class bonus included)
PlayerStats == [attack |-> 10, defense |-> 0, luck |-> 0]

\* stats the enemy is built with
EnemyStats == [attack |-> 3, defense |-> 5, luck |-> 3]

\* GameLoop(start_level=1)
start_level == 1

\* base_hp_max / base_sp_max the entities are built with
PoolMax ==
  [ player |-> [hp |-> 12, sp |-> 8],
    enemy  |-> [hp |-> 50, sp |-> 2] ]

----------------------------------------------------------------------------
VARIABLES
  base_stats,   \* Entity.base_stats : [Entities -> Stats]
  hp_res,       \* Entity.hp_res     : [Entities -> Resource]
  sp_res,       \* Entity.sp_res     : [Entities -> Resource]
  equipment,    \* Player.equipment / Enemy.equipment : [Entities -> EquipmentSet]
  items,        \* mutable fields of every Equipment object
  effect_objs,  \* the Effect objects : [Refs -> Effect]
  active,       \* EffectManager._active : [Entities -> list of references]
  pc,           \* position of GameLoop._run_battle
  call,         \* the last call issued, with the values it drew from the rng
  ret,          \* what that call returned
  zone,         \* GameLoop.zone : the Zone being explored
  run_pc,       \* position of GameLoop.run
  engines,      \* CombatEngine.rng of the engines built with a seed
  twin          \* the combatants the second engine is driven on, and its result

vars ==
  <<base_stats, hp_res, sp_res, equipment, items, effect_objs, active, pc, call, ret,
    zone, run_pc, engines, twin>>

----------------------------------------------------------------------------
(* core/utils.py, core/resource.py *)

Max(a, b) == IF a >= b THEN a ELSE b

Min(a, b) == IF a <= b THEN a ELSE b

clamp(n, lo, hi) == IF n < lo THEN lo ELSE IF n > hi THEN hi ELSE n

\* int(round(n / d)) for n >= 0, d > 0: Python rounds halves to even
RoundHalfEven(n, d) ==
  LET q == n \div d
      r == n % d
  IN  IF 2 * r < d THEN q
      ELSE IF 2 * r > d THEN q + 1
      ELSE IF q % 2 = 0 THEN q ELSE q + 1

\* Resource.add: the new pool and the returned delta
add(res, amount) ==
  LET cur == clamp(res.current + amount, 0, res.maximum)
  IN  [res |-> [res EXCEPT !.current = cur], delta |-> cur - res.current]

\* Resource.remove: the new pool and the returned delta
remove(res, amount) ==
  LET cur == clamp(res.current - amount, 0, res.maximum)
  IN  [res |-> [res EXCEPT !.current = cur], delta |-> res.current - cur]

\* set_maximum that leaves current alone when the ratio is not kept
set_maximum_unclamped(res, new_max, preserve_ratio) ==
  IF preserve_ratio /\ res.maximum > 0
  THEN [maximum |-> Max(0, new_max),
        current |-> RoundHalfEven(Max(0, new_max) * res.current, res.maximum)]
  ELSE [maximum |-> Max(0, new_max), current |-> res.current]

\* Resource.set_maximum
set_maximum(res, new_max, preserve_ratio) ==
  IF preserve_ratio /\ res.maximum > 0
  THEN [maximum |-> Max(0, new_max),
        current |-> RoundHalfEven(Max(0, new_max) * res.current, res.maximum)]
  ELSE [maximum |-> Max(0, new_max),
        current |-> Min(res.current, Max(0, new_max))]

----------------------------------------------------------------------------
(* core/equipment.py: an operation maps a world w = [items, base_stats] to *)
(* the world after it                                                      *)

is_broken(it) == it.durability.current <= 0

bonuses_active(it) == (it._holder # None) /\ (~ is_broken(it)) /\ it._bonuses_applied

\* apply_bonuses of an Artifact that adds its percentages to the stats
apply_bonuses_percent(w, i, e) ==
  CASE ItemDef[i].kind = "weapon" ->
         [w EXCEPT !.base_stats[e].attack = @ + ItemDef[i].bonus_attack]
    [] ItemDef[i].kind = "armor" ->
         [w EXCEPT !.base_stats[e].defense = @ + ItemDef[i].bonus_defense]
    [] OTHER ->
         [w EXCEPT !.base_stats[e].attack = @ + ItemDef[i].atk_pct,
                   !.base_stats[e].defense = @ + ItemDef[i].def_pct]

\* Weapon.apply_bonuses / Armor.apply_bonuses / Artifact.apply_bonuses
apply_bonuses(w, i, e) ==
  CASE ItemDef[i].kind = "weapon" ->
         [w EXCEPT !.base_stats[e].attack = @ + ItemDef[i].bonus_attack]
    [] ItemDef[i].kind = "armor" ->
         [w EXCEPT !.base_stats[e].defense = @ + ItemDef[i].bonus_defense]
    [] OTHER -> w

\* Weapon.remove_bonuses / Armor.remove_bonuses / Artifact.remove_bonuses
remove_bonuses(w, i, e) ==
  CASE ItemDef[i].kind = "weapon" ->
         [w EXCEPT !.base_stats[e].attack = @ - ItemDef[i].bonus_attack]
    [] ItemDef[i].kind = "armor" ->
         [w EXCEPT !.base_stats[e].defense = @ - ItemDef[i].bonus_defense]
    [] OTHER -> w

\* on_equip that applies the bonuses of a broken item too
on_equip_unchecked(w, i, e) ==
  [apply_bonuses([w EXCEPT !.items[i]._holder = e], i, e)
     EXCEPT !.items[i]._bonuses_applied = TRUE]

\* Equipment.on_equip
on_equip(w, i, e) ==
  LET w1 == [w EXCEPT !.items[i]._holder = e]
  IN  IF ~ is_broken(w1.items[i])
      THEN [apply_bonuses(w1, i, e) EXCEPT !.items[i]._bonuses_applied = TRUE]
      ELSE [w1 EXCEPT !.items[i]._bonuses_applied = FALSE]

\* on_unequip that asks bonuses_active instead of _bonuses_applied
on_unequip_if_active(w, i, e) ==
  LET w1 == IF bonuses_active(w.items[i]) THEN remove_bonuses(w, i, e) ELSE w
  IN  [w1 EXCEPT !.items[i]._bonuses_applied = FALSE, !.items[i]._holder = None]

\* Equipment.on_unequip
on_unequip(w, i, e) ==
  LET w1 == IF w.items[i]._bonuses_applied THEN remove_bonuses(w, i, e) ELSE w
  IN  [w1 EXCEPT !.items[i]._bonuses_applied = FALSE, !.items[i]._holder = None]

\* degrade that leaves the bonuses of an item that breaks
degrade_keeps_bonuses(w, i, amount) ==
  IF amount <= 0 \/ is_broken(w.items[i])
  THEN [w |-> w, ret |-> FALSE]
  ELSE LET w1 == [w EXCEPT !.items[i].durability = remove(@, amount).res]
       IN  [w |-> w1, ret |-> w1.items[i].durability.current = 0]

\* Equipment.degrade: the world after it and the returned flag
degrade(w, i, amount) ==
  IF amount <= 0 \/ is_broken(w.items[i])
  THEN [w |-> w, ret |-> FALSE]
  ELSE LET before == w.items[i].durability.current
           w1 == [w EXCEPT !.items[i].durability = remove(@, amount).res]
           just_broke == before > 0 /\ w1.items[i].durability.current = 0
       IN  IF just_broke /\ w1.items[i]._holder # None /\ w1.items[i]._bonuses_applied
           THEN [w |-> [remove_bonuses(w1, i, w1.items[i]._holder)
                          EXCEPT !.items[i]._bonuses_applied = FALSE],
                 ret |-> just_broke]
           ELSE [w |-> w1, ret |-> just_broke]

\* Equipment.repair: the world after it and the returned flag
repair(w, i, amount) ==
  IF amount <= 0
  THEN [w |-> w, ret |-> FALSE]
  ELSE LET before == w.items[i].durability.current
           w1 == [w EXCEPT !.items[i].durability = add(@, amount).res]
           became_functional == before = 0 /\ w1.items[i].durability.current > 0
       IN  IF became_functional /\ w1.items[i]._holder # None /\ ~ w1.items[i]._bonuses_applied
           THEN [w |-> [apply_bonuses(w1, i, w1.items[i]._holder)
                          EXCEPT !.items[i]._bonuses_applied = TRUE],
                 ret |-> became_functional]
           ELSE [w |-> w1, ret |-> became_functional]

\* Equipment.set_quality
set_quality(w, i, new_max, keep_ratio) ==
  LET was_broken == is_broken(w.items[i])
      w1 == [w EXCEPT !.items[i].durability = set_maximum(@, new_max, keep_ratio)]
      now_broken == is_broken(w1.items[i])
  IN  IF was_broken /\ ~ now_broken
      THEN IF w1.items[i]._holder # None /\ ~ w1.items[i]._bonuses_applied
           THEN [apply_bonuses(w1, i, w1.items[i]._holder)
                   EXCEPT !.items[i]._bonuses_applied = TRUE]
           ELSE w1
      ELSE IF ~ was_broken /\ now_broken
      THEN IF w1.items[i]._holder # None /\ bonuses_active(w1.items[i])
           THEN [remove_bonuses(w1, i, w1.items[i]._holder)
                   EXCEPT !.items[i]._bonuses_applied = FALSE]
           ELSE w1
      ELSE w1
----------------------------------------------------------------------------
(* core/entity.py *)

\* the instance attributes of the Player / Enemy object e in world w
Entity(w, e) ==
  [base_stats |-> w.base_stats[e], hp_res |-> w.hp_res[e], sp_res |-> w.sp_res[e],
   equipment |-> w.equipment[e]]

\* Python's getattr(obj, name, default)
getattr(obj, name, default) == IF name \in DOMAIN obj THEN obj[name] ELSE default

\* Entity.take_damage: the new health pool and the returned amount
take_damage(res, amount) ==
  LET dmg == Max(0, amount)
  IN  [res |-> remove(res, dmg).res, ret |-> dmg]

\* spend_sp that takes what is there before it refuses
spend_sp_partial(res, cost) ==
  LET c == Max(0, cost)
  IN  [res |-> remove(res, c).res, ret |-> res.current >= c]

\* Entity.spend_sp: the new action-point pool and the returned flag
spend_sp(res, cost) ==
  LET c == Max(0, cost)
  IN  IF res.current < c
      THEN [res |-> res, ret |-> FALSE]
      ELSE [res |-> remove(res, c).res, ret |-> TRUE]

----------------------------------------------------------------------------
(* core/combat.py *)

RECURSIVE Pow(_, _)
Pow(b, n) == IF n = 0 THEN 1 ELSE b * Pow(b, n - 1)

\* Artifact.stat_percent_mod (atk_pct / def_pct are truncated to int by the
\* constructor, so a modifier is a whole number)
stat_percent_mod(i, it) ==
  IF is_broken(it)
  THEN [attack_pct |-> 0, defense_pct |-> 0, luck_pct |-> 0]
  ELSE [attack_pct |-> ItemDef[i].atk_pct, defense_pct |-> ItemDef[i].def_pct,
        luck_pct |-> ItemDef[i].lck_pct]

\* CombatEngine._gather_pct: the slots are probed as attributes of the
\* entity, from slot number k on
RECURSIVE gather_pct(_, _, _, _)
gather_pct(w, ent, which, k) ==
  IF k > Len(SLOTS) THEN 0
  ELSE LET item == getattr(ent, SLOTS[k], None)
           here == IF item = None THEN 0
                   ELSE IF ItemDef[item].kind # "artifact" THEN 0
                   ELSE IF which = "attack"
                        THEN stat_percent_mod(item, w.items[item]).attack_pct
                        ELSE stat_percent_mod(item, w.items[item]).defense_pct
       IN  here + gather_pct(w, ent, which, k + 1)

\* CombatEngine._effective_attack
effective_attack(w, ent) == ent.base_stats.attack * (1 + gather_pct(w, ent, "attack", 1))

\* CombatEngine._effective_defense
effective_defense(w, ent) == ent.base_stats.defense * (1 + gather_pct(w, ent, "defense", 1))

\* a curve that is not bounded by 1
linear_crit_from_luck(luck) == [num |-> Max(0, luck), den |-> 2]

\* CombatEngine._default_crit_from_luck, 1 - 0.99 ** max(0, luck), as the
\* fraction num / den
default_crit_from_luck(luck) ==
  LET l == Max(0, luck)
  IN  [num |-> Pow(100, l) - Pow(99, l), den |-> Pow(100, l)]

\* _roll_crit that compares with <= : a draw of 0.0 crits at p = 0
roll_crit_inclusive(luck, roll) ==
  LET p == default_crit_from_luck(luck)
  IN  roll * p.den <= p.num * RollDen

\* self._crit_func: the default curve, or the crit_chance_from_luck the
\* engine was built with (here luck / 2, which leaves [0, 1])
CritFuncs == {"default", "custom"}

crit_func(f, luck) ==
  IF f = "default" THEN default_crit_from_luck(luck) ELSE [num |-> luck, den |-> 2]

\* max(0.0, min(1.0, p)) on a fraction with den > 0
clamp01(p) ==
  IF p.num < 0 THEN [num |-> 0, den |-> 1]
  ELSE IF p.num > p.den THEN [num |-> 1, den |-> 1]
  ELSE p

\* CombatEngine._roll_crit for an engine whose _crit_func is f:
\* rng.random() = roll / RollDen is below the clamped p
roll_crit_with(f, luck, roll) ==
  LET p == clamp01(crit_func(f, luck))
  IN  roll * p.den < p.num * RollDen

\* CombatEngine._roll_crit of an engine built without crit_chance_from_luck
roll_crit(luck, roll) == roll_crit_with("default", luck, roll)

\* CombatEngine._crit_multiplier, in tenths (no Equipment class defines
\* crit_mult_bonus)
crit_multiplier(ent, atk) == Max(10, atk.crit_multiplier10)

\* CombatEngine._wear_after_attack: the world and the events after it
wear_after_attack(w, ent) ==
  LET weapon == getattr(ent, "weapon", None)
  IN  IF weapon # None /\ ItemDef[weapon].kind = "weapon"
      THEN LET was_broken == is_broken(w.items[weapon])
               w1 == degrade(w, weapon, 1).w
               now_broken == is_broken(w1.items[weapon])
           IN  [w |-> w1,
                events |-> IF ~ was_broken /\ now_broken THEN <<"weapon_broken">> ELSE <<>>]
      ELSE [w |-> w, events |-> <<>>]

\* Armor.on_after_hit
on_after_hit(w, i, damage_taken) == IF damage_taken > 0 THEN degrade(w, i, 1).w ELSE w

\* CombatEngine._wear_after_hit: the world and the events after it
wear_after_hit(w, ent, damage_dealt) ==
  LET armor == getattr(ent, "armor", None)
  IN  IF armor # None /\ ItemDef[armor].kind = "armor"
      THEN LET was_broken == is_broken(w.items[armor])
               w1 == on_after_hit(w, armor, damage_dealt)
               now_broken == is_broken(w1.items[armor])
           IN  [w |-> w1,
                events |-> IF ~ was_broken /\ now_broken THEN <<"armor_broken">> ELSE <<>>]
      ELSE [w |-> w, events |-> <<>>]

\* the CombatResult resolve_turn builds
CombatResult(events, w, a, d, damage_dealt, was_crit) ==
  [events |-> events,
   attacker_alive |-> w.hp_res[a].current > 0,
   defender_alive |-> w.hp_res[d].current > 0,
   damage_dealt |-> damage_dealt, was_crit |-> was_crit]

\* a resolver that wears the attacker's equipped weapon before it deals the
\* damage
resolve_turn_wear_first(w, a, d, atk, delta, roll) ==
  LET cost == atk.cost
      pay == spend_sp(w.sp_res[a], cost)
      w1 == IF cost # 0 THEN [w EXCEPT !.sp_res[a] = pay.res] ELSE w
  IN  IF cost # 0 /\ ~ pay.ret
      THEN [w |-> w1, aborted |-> TRUE,
            ret |-> CombatResult(<<"not_enough_sp">>, w1, a, d, 0, FALSE)]
      ELSE LET wa == wear_after_attack(w1, [weapon |-> w1.equipment[a].weapon])
               raw == Max(0, atk.base_damage + delta + effective_attack(wa.w, Entity(wa.w, a))
                               - effective_defense(wa.w, Entity(wa.w, d)))
               hit == take_damage(wa.w.hp_res[d], raw)
               w2 == [wa.w EXCEPT !.hp_res[d] = hit.res]
               ev0 == IF hit.ret > 0 THEN <<"damage">> ELSE <<"no_damage">>
           IN  [w |-> w2, aborted |-> FALSE,
                ret |-> CombatResult(wa.events \o ev0, w2, a, d, hit.ret, FALSE)]

\* CombatEngine.resolve_turn from the cost check on; delta and roll are what
\* rng.randint and rng.random return when they are called.  Yields the
\* world after the call, the CombatResult, and whether the early return of
\* the cost check was taken.
resolve_turn(w, a, d, atk, delta, roll) ==
  LET cost == atk.cost
      pay == spend_sp(w.sp_res[a], cost)
      \* spend_sp is called only when cost is truthy, and works on the pool
      w1 == IF cost # 0 THEN [w EXCEPT !.sp_res[a] = pay.res] ELSE w
  IN  IF cost # 0 /\ ~ pay.ret
      THEN [w |-> w1, aborted |-> TRUE,
            ret |-> CombatResult(<<"not_enough_sp">>, w1, a, d, 0, FALSE)]
      ELSE LET eff_atk == effective_attack(w1, Entity(w1, a))
               eff_def == effective_defense(w1, Entity(w1, d))
               raw0 == Max(0, atk.base_damage + delta + eff_atk - eff_def)
               was_crit == roll_crit(w1.base_stats[a].luck, roll)
               raw == IF was_crit /\ raw0 > 0
                      THEN RoundHalfEven(raw0 * crit_multiplier(Entity(w1, a), atk), 10)
                      ELSE raw0
               hit == take_damage(w1.hp_res[d], raw)
               dealt == hit.ret
               w2 == [w1 EXCEPT !.hp_res[d] = hit.res]
               ev0 == IF dealt > 0 THEN <<"damage">> ELSE <<"no_damage">>
               wa == wear_after_attack(w2, Entity(w2, a))
               wh == IF dealt > 0
                     THEN wear_after_hit(wa.w, Entity(wa.w, d), dealt)
                     ELSE [w |-> wa.w, events |-> <<>>]
           IN  [w |-> wh.w, aborted |-> FALSE,
                ret |-> CombatResult(ev0 \o wa.events \o wh.events, wh.w, a, d, dealt, was_crit)]

\* the values rng.randint(-variance, variance) can return (0, without a
\* draw, when variance is 0)
Deltas(atk) == IF atk.variance > 0 THEN (-atk.variance)..atk.variance ELSE {0}

\* random.Random(seed): a deterministic generator whose state is fixed by
\* the seed and the number of draws made; one draw moves it one step along
\* a full-period congruential sequence
Seeds == {1, 2, 3}

Random(seed) == seed

rng_step(s) == (5 * s + 3) % 16

\* rng.randint(lo, hi), drawn in state s
randint(s, lo, hi) == lo + (s % (hi - lo + 1))

\* rng.random(), drawn in state s, in units of 1 / RollDen
random(s) == s % RollDen

\* a resolver that draws its two values on entry
engine_resolve_turn_draws_first(w, s, a, d, atk) ==
  LET s1 == IF atk.variance > 0 THEN rng_step(s) ELSE s
      delta == IF atk.variance > 0 THEN randint(s1, -atk.variance, atk.variance) ELSE 0
      s2 == rng_step(s1)
  IN  CHOOSE out \in {[w |-> r.w, ret |-> r.ret, aborted |-> r.aborted, rng |-> s2] :
                       r \in {resolve_turn(w, a, d, atk, delta, random(s2))}} : TRUE

\* CombatEngine.resolve_turn on self.rng in state s: rng.randint is called
\* when variance > 0 and rng.random by _roll_crit, both after the cost
\* check; rng is the generator's state when the call returns
engine_resolve_turn(w, s, a, d, atk) ==
  LET s1 == IF atk.variance > 0 THEN rng_step(s) ELSE s
      delta == IF atk.variance > 0 THEN randint(s1, -atk.variance, atk.variance) ELSE 0
      s2 == rng_step(s1)
  IN  CHOOSE out \in {[w |-> r.w, ret |-> r.ret, aborted |-> r.aborted,
                        rng |-> IF r.aborted THEN s ELSE s2] :
                       r \in {resolve_turn(w, a, d, atk, delta, random(s2))}} : TRUE

\* one generator read by every engine
engine_rng_shared(engs, k) == engs[1]

\* self.rng of engine k: each engine owns the generator it built
engine_rng(engs, k) == engs[k]

----------------------------------------------------------------------------
(* core/player.py *)

\* Player.equip: the item goes to the slot of its kind
equip(w, self, new_item) ==
  LET slot == ItemDef[new_item].kind
      current_holder == w.items[new_item]._holder
      w0 == IF current_holder # None /\ current_holder # self
            THEN on_unequip(w, new_item, current_holder)
            ELSE w
      current_item == w0.equipment[self][slot]
      w1 == on_unequip(w0, current_item, self)
      w2 == on_equip(w1, new_item, self)
  IN  [w2 EXCEPT !.equipment[self][slot] = new_item]

\* Player.unequip
unequip(w, self, slot) ==
  LET item == w.equipment[self][slot]
      no_equip == NO_EQUIP[slot]
      w1 == on_unequip(w, item, self)
      w2 == on_equip(w1, no_equip, self)
  IN  [w2 EXCEPT !.equipment[self][slot] = no_equip]

----------------------------------------------------------------------------
(* core/data_loader.py *)

\* DataConsumable.on_use with payload type "repair_equipment": the
\* durability of the item in the user's slot is set, through setattr
on_use_repair_equipment(w, user, target, amount) ==
  LET eq == w.equipment[user][target]
      cur == w.items[eq].durability.current
      mx == w.items[eq].durability.maximum
      new == Min(mx, cur + amount)
  IN  [w |-> [w EXCEPT !.items[eq].durability.current = new],
       events |-> <<"use_repair">>, restored |-> new - cur]

----------------------------------------------------------------------------
(* core/effects.py, core/effect_manager.py: the registry holds references  *)
(* to Effect objects                                                       *)

StackPolicy == {"refresh", "stack", "ignore"}

\* copy.deepcopy of an Effect: the lowest reference that holds no object
NewRef(w) ==
  CHOOSE r \in InstanceRefs :
    /\ w.effect_objs[r] = Free
    /\ \A q \in InstanceRefs : q < r => w.effect_objs[q] # Free

\* deepcopy(effect): the world with the copy, and the copy's reference
deepcopy(w, ref) ==
  LET r == NewRef(w)
  IN  [w |-> [w EXCEPT !.effect_objs[r] = w.effect_objs[ref]], ref |-> r]

RECURSIVE Range(_)
Range(seq) == IF seq = <<>> THEN {} ELSE {Head(seq)} \cup Range(Tail(seq))

\* the copies the registry refers to, in the order it lists them
Listed(w) == SelectSeq(w.active["player"] \o w.active["enemy"], LAMBDA r : r \in InstanceRefs)

\* objects nothing refers to any more are collected; a reference is only a
\* name, and the copies in use are named in the order the registry lists them
Collect(w) ==
  LET seq == Listed(w)
      first(r) == CHOOSE k \in 1..Len(seq) : seq[k] = r /\ \A j \in 1..(k - 1) : seq[j] # r
      rename(r) == IF r \in TemplateRefs THEN r
                   ELSE 2 + Cardinality({seq[j] : j \in 1..first(r)})
  IN  [w EXCEPT
         !.effect_objs =
           [n \in Refs |->
              IF n \in TemplateRefs THEN w.effect_objs[n]
              ELSE IF \E r \in Range(seq) : rename(r) = n
              THEN w.effect_objs[CHOOSE r \in Range(seq) : rename(r) = n]
              ELSE Free],
         !.active =
           [e \in Entities |-> [k \in 1..Len(w.active[e]) |-> rename(w.active[e][k])]]]

\* Effect.is_expired
is_expired(eff) == eff.duration <= 0

\* EffectManager._same_kind
same_kind(a, b) == a.cls = b.cls /\ a.name = b.name

\* Effect.on_apply and its overrides
on_apply(w, ref, target) ==
  LET eff == w.effect_objs[ref]
  IN  IF eff.cls = "AttackBuffEffect"
      THEN [w EXCEPT !.base_stats[target].attack = @ + eff.potency]
      ELSE w

\* Effect.on_expire as the base class has it (pass)
Effect_on_expire(w, ref, target) == w

\* Effect.on_expire and its overrides
on_expire(w, ref, target) ==
  LET eff == w.effect_objs[ref]
  IN  IF eff.cls = "AttackBuffEffect"
      THEN [w EXCEPT !.base_stats[target].attack = @ - eff.potency]
      ELSE w

\* Effect.tick
tick(w, ref) == [w EXCEPT !.effect_objs[ref].duration = @ - 1]

\* Effect.on_turn_end (pass) and PoisonEffect.on_turn_end; ctx_attacker is
\* ctx.attacker
Effect_on_turn_end(w, ref, ctx_attacker) ==
  LET eff == w.effect_objs[ref]
  IN  IF eff.cls = "PoisonEffect"
      THEN IF is_expired(eff) THEN w
           ELSE tick([w EXCEPT !.hp_res[ctx_attacker] =
                                  take_damage(@, eff.potency).res], ref)
      ELSE w

\* index of the first instance of lst of the kind of effect, 0 if none
RECURSIVE FirstSameKind(_, _, _, _)
FirstSameKind(w, lst, effect, k) ==
  IF k > Len(lst) THEN 0
  ELSE IF same_kind(w.effect_objs[lst[k]], effect) THEN k
  ELSE FirstSameKind(w, lst, effect, k + 1)

\* apply that registers the object it is given
apply_shared(w, target, eref, ctx, policy, max_stacks) ==
  LET lst == w.active[target]
      effect == w.effect_objs[eref]
      k == FirstSameKind(w, lst, effect, 1)
      stacks == {j \in 1..Len(lst) : same_kind(w.effect_objs[lst[j]], effect)}
  IN  IF policy # "stack" /\ k > 0
      THEN IF policy = "refresh"
           THEN [w EXCEPT !.effect_objs[lst[k]].duration = effect.duration]
           ELSE w
      ELSE IF policy = "stack" /\ Cardinality(stacks) >= max_stacks
      THEN w
      ELSE LET w1 == [w EXCEPT !.active[target] = Append(@, eref)]
           IN  IF ctx THEN on_apply(w1, eref, target) ELSE w1

\* apply whose stack policy does not look at max_stacks
apply_unbounded(w, target, eref, ctx, policy, max_stacks) ==
  LET lst == w.active[target]
      effect == w.effect_objs[eref]
      k == FirstSameKind(w, lst, effect, 1)
  IN  IF policy # "stack" /\ k > 0
      THEN IF policy = "refresh"
           THEN [w EXCEPT !.effect_objs[lst[k]].duration = effect.duration]
           ELSE w
      ELSE LET c == deepcopy(w, eref)
               w1 == [c.w EXCEPT !.active[target] = Append(@, c.ref)]
           IN  IF ctx THEN on_apply(w1, c.ref, target) ELSE w1

\* EffectManager.apply; ctx tells whether a context is passed
apply(w, target, eref, ctx, policy, max_stacks) ==
  LET lst == w.active[target]
      effect == w.effect_objs[eref]
      k == FirstSameKind(w, lst, effect, 1)
      stacks == {j \in 1..Len(lst) : same_kind(w.effect_objs[lst[j]], effect)}
  IN  IF policy # "stack" /\ k > 0
      THEN IF policy = "refresh"
           THEN [w EXCEPT !.effect_objs[lst[k]].duration = effect.duration]
           ELSE w
      ELSE IF policy = "stack" /\ Cardinality(stacks) >= max_stacks
      THEN w
      ELSE LET c == deepcopy(w, eref)
               w1 == [c.w EXCEPT !.active[target] = Append(@, c.ref)]
           IN  IF ctx THEN on_apply(w1, c.ref, target) ELSE w1

\* EffectManager.purge_expired, from instance k of the list on
RECURSIVE purge_from(_, _, _, _, _)
purge_from(w, target, lst, ctx, k) ==
  IF k > Len(lst) THEN [w |-> w, keep |-> <<>>]
  ELSE IF is_expired(w.effect_objs[lst[k]])
  THEN purge_from(IF ctx THEN on_expire(w, lst[k], target) ELSE w, target, lst, ctx, k + 1)
  ELSE LET rest == purge_from(w, target, lst, ctx, k + 1)
       IN  [w |-> rest.w, keep |-> <<lst[k]>> \o rest.keep]

purge_expired(w, target, ctx) ==
  LET p == purge_from(w, target, w.active[target], ctx, 1)
  IN  [p.w EXCEPT !.active[target] = p.keep]

\* the loop of EffectManager.on_turn_end over list(self._active[target])
RECURSIVE turn_end_from(_, _, _, _)
turn_end_from(w, lst, ctx_attacker, k) ==
  IF k > Len(lst) THEN w
  ELSE turn_end_from(Effect_on_turn_end(w, lst[k], ctx_attacker), lst, ctx_attacker, k + 1)

\* EffectManager.on_turn_end
on_turn_end(w, target, ctx_attacker) ==
  purge_expired(turn_end_from(w, w.active[target], ctx_attacker, 1), target, TRUE)

\* content/effects_bank.py make_effect("blessing_atk", duration=, potency=):
\* a new AttackBuffEffect object
make_effect(w, effect_id, duration, potency) ==
  LET r == NewRef(w)
      eff == IF effect_id = "blessing_atk"
             THEN [BlessingTemplate EXCEPT !.duration = duration, !.potency = potency]
             ELSE [PoisonTemplate EXCEPT !.duration = duration, !.potency = potency]
  IN  [w |-> [w EXCEPT !.effect_objs[r] = eff], ref |-> r]

\* the tags EffectManager.on_turn_end(target, ctx) appends to ctx.events:
\* a poison_tick per poison that is not expired, then a buff_attack_expire
\* per attack buff that purge_expired removes
turn_end_events(w, target) ==
  LET lst == w.active[target]
      w1 == turn_end_from(w, lst, target, 1)
      ticked == SelectSeq(lst, LAMBDA r : w.effect_objs[r].cls = "PoisonEffect"
                                           /\ ~ is_expired(w.effect_objs[r]))
      expired == SelectSeq(lst, LAMBDA r : w1.effect_objs[r].cls = "AttackBuffEffect"
                                            /\ is_expired(w1.effect_objs[r]))
  IN  [k \in 1..Len(ticked) |-> "poison_tick"] \o [k \in 1..Len(expired) |-> "buff_attack_expire"]

----------------------------------------------------------------------------
(* game/game_loop.py *)

\* GameLoop._clone_effect_instance: eff.id does not exist, the except branch
\* deep-copies
clone_effect_instance(w, eff) == deepcopy(w, eff)

\* GameLoop._instantiate_effect of an Effect object
instantiate_effect(w, raw) == clone_effect_instance(w, raw)

\* the loop of _apply_attack_effects over the attack's effects, from k on
RECURSIVE apply_effects_from(_, _, _, _)
apply_effects_from(w, target, effs, k) ==
  IF k > Len(effs) THEN w
  ELSE LET e2 == instantiate_effect(w, effs[k])
           max_stacks == getattr(e2.w.effect_objs[e2.ref], "max_stack", 1)
       IN  apply_effects_from(apply(e2.w, target, e2.ref, TRUE, "refresh", max_stacks),
                              target, effs, k + 1)

\* GameLoop._apply_attack_effects
apply_attack_effects(w, attacker, defender, attack, result) ==
  IF result.defender_alive /\ attack.effects # <<>>
  THEN LET target == IF getattr(attack, "target", "enemy") = "self" THEN attacker
                     ELSE defender
       IN  apply_effects_from(w, target, attack.effects, 1)
  ELSE w

\* _tick_end_of_turn that ticks the other combatant
tick_end_of_turn_defender(w, attacker, defender) ==
  [w |-> on_turn_end(w, defender, defender), target |-> defender]

\* GameLoop._tick_end_of_turn: the world after it and the combatant ticked
tick_end_of_turn(w, attacker, defender) ==
  [w |-> on_turn_end(w, attacker, attacker), target |-> attacker]

\* Entity.heal_hp
heal_hp(w, e, amount) ==
  LET r == add(w.hp_res[e], amount)
  IN  [w |-> [w EXCEPT !.hp_res[e] = r.res], ret |-> r.delta]

\* Entity.heal_sp
heal_sp(w, e, amount) ==
  LET r == add(w.sp_res[e], amount)
  IN  [w |-> [w EXCEPT !.sp_res[e] = r.res], ret |-> r.delta]

\* SectionType
SectionKinds == {"COMBAT", "EVENT", "SUPPLY", "BOSS"}

\* Zone(zone_type, level): explored starts at 0
Zone(level) == [level |-> level, explored |-> 0]

boss_ready_early(z) == z.explored >= 3

\* Zone.boss_ready
boss_ready(z) == z.explored >= 4

\* GameLoop._generate_section_choices: two sections of different kinds drawn
\* from COMBAT / EVENT / SUPPLY
generate_section_choices ==
  LET pool == {"COMBAT", "EVENT", "SUPPLY"}
  IN  {<<a, b>> : a \in pool, b \in pool} \ {<<a, a>> : a \in pool}

\* GameLoop._choose_section: the choice of the I/O among the options, or the
\* first option
choose_section(options) == {options[1], options[2]}

\* GameLoop._generate_boss_section
generate_boss_section == "BOSS"

\* the zones a save slot written by the SAVE action of a supply section holds
SavedZones == [level : start_level..MaxLevel, explored : 0..3]

\* what _enter_section leaves of self.zone: the LOAD action of a supply section
\* replaces the whole state of the loop by the loaded one, every other path
\* leaves the zone alone
zone_after_section(z, kind) == IF kind = "SUPPLY" THEN {z} \cup SavedZones ELSE {z}

----------------------------------------------------------------------------
(* The state machine *)

World ==
  [base_stats |-> base_stats, hp_res |-> hp_res, sp_res |-> sp_res,
   equipment |-> equipment, items |-> items, effect_objs |-> effect_objs,
   active |-> active]

\* the objects are those of world w
Becomes(w) ==
  /\ base_stats' = w.base_stats
  /\ hp_res' = w.hp_res
  /\ sp_res' = w.sp_res
  /\ equipment' = w.equipment
  /\ items' = w.items
  /\ effect_objs' = w.effect_objs
  /\ active' = w.active

NoCall ==
  [op |-> "init", self |-> None, other |-> None, attack |-> None,
   amount |-> 0, keep_ratio |-> FALSE, delta |-> 0, roll |-> 0,
   effect |-> 0, policy |-> None]

Init ==
  /\ base_stats = [player |-> PlayerStats, enemy |-> EnemyStats]
  /\ hp_res = [e \in Entities |-> [current |-> PoolMax[e].hp, maximum |-> PoolMax[e].hp]]
  /\ sp_res = [e \in Entities |-> [current |-> PoolMax[e].sp, maximum |-> PoolMax[e].sp]]
  /\ equipment = [player |-> NO_EQUIP,
                  enemy  |-> [weapon |-> "membre", armor |-> "chair", artifact |-> "malice"]]
  /\ items = [i \in ItemIds |->
                [durability |-> [current |-> ItemDef[i].durability_max,
                                 maximum |-> ItemDef[i].durability_max],
                 _holder |-> None,
                 _bonuses_applied |-> FALSE]]
  /\ effect_objs = [r \in Refs |-> IF r = 1 THEN PoisonTemplate
                                   ELSE IF r = 2 THEN BlessingTemplate ELSE Free]
  /\ active = [e \in Entities |-> <<>>]
  /\ pc = "player_turn"
  /\ call = NoCall
  /\ ret = Returned(None)
  /\ zone = [level |-> start_level, explored |-> 0]
  /\ run_pc = "zone_start"
  /\ engines = <<>>
  /\ twin = [w |-> World, ret |-> Returned(None)]

\* one turn of a battle (_run_battle): both combatants are alive, one
\* attacks the other
ResolveTurn ==
  \E a \in Entities, d \in Entities, id \in AttackIds :
    /\ a # d
    /\ hp_res[a].current > 0
    /\ hp_res[d].current > 0
    /\ \E delta \in Deltas(Attacks[id]), roll \in Rolls :
         \E r \in {resolve_turn(World, a, d, Attacks[id], delta, roll)} :
           /\ Becomes(r.w)
           /\ call' = [NoCall EXCEPT !.op = "resolve_turn", !.self = a, !.other = d,
                                     !.attack = id,
                                     !.delta = IF r.aborted THEN 0 ELSE delta,
                                     !.roll = IF r.aborted THEN 0 ELSE roll]
           /\ ret' = r.ret
           /\ pc' = pc
           /\ UNCHANGED <<zone, run_pc, engines, twin>>

Equip ==
  \E i \in Gear :
    /\ Becomes(equip(World, "player", i))
    /\ call' = [NoCall EXCEPT !.op = "equip", !.self = i, !.other = "player"]
    /\ ret' = Returned(None)
    /\ pc' = pc
    /\ UNCHANGED <<zone, run_pc, engines, twin>>

Unequip ==
  \E slot \in {"weapon", "armor"} :
    /\ Becomes(unequip(World, "player", slot))
    /\ call' = [NoCall EXCEPT !.op = "unequip", !.self = equipment["player"][slot],
                              !.other = "player"]
    /\ ret' = Returned(None)
    /\ pc' = pc
    /\ UNCHANGED <<zone, run_pc, engines, twin>>

\* Equipment.degrade called on an item of the player
Degrade ==
  \E i \in Gear, amount \in (-1)..MaxAmount :
    \E r \in {degrade(World, i, amount)} :
      /\ Becomes(r.w)
      /\ call' = [NoCall EXCEPT !.op = "degrade", !.self = i, !.amount = amount]
      /\ ret' = r.ret
      /\ pc' = pc
      /\ UNCHANGED <<zone, run_pc, engines, twin>>

\* Equipment.repair called on an item of the player
Repair ==
  \E i \in Gear, amount \in (-1)..MaxAmount :
    \E r \in {repair(World, i, amount)} :
      /\ Becomes(r.w)
      /\ call' = [NoCall EXCEPT !.op = "repair", !.self = i, !.amount = amount]
      /\ ret' = r.ret
      /\ pc' = pc
      /\ UNCHANGED <<zone, run_pc, engines, twin>>

\* Equipment.set_quality called on an item of the player
SetQuality ==
  \E i \in Gear, new_max \in (-1)..MaxQuality, keep_ratio \in BOOLEAN :
    /\ Becomes(set_quality(World, i, new_max, keep_ratio))
    /\ call' = [NoCall EXCEPT !.op = "set_quality", !.self = i, !.amount = new_max,
                              !.keep_ratio = keep_ratio]
    /\ ret' = Returned(None)
    /\ pc' = pc
    /\ UNCHANGED <<zone, run_pc, engines, twin>>

\* EffectManager.apply called with a template (max_stacks is read by the
\* stack policy only)
Apply ==
  \E target \in Entities, eref \in TemplateRefs, policy \in StackPolicy :
   \E max_stacks \in IF policy = "stack" THEN 1..MaxStacks ELSE {1} :
    \E w \in {Collect(apply(World, target, eref, TRUE, policy, max_stacks))} :
    /\ Len(Listed(w)) <= MaxCopies
    /\ Becomes(w)
    /\ call' = [NoCall EXCEPT !.op = "apply", !.self = target, !.effect = eref,
                              !.policy = policy, !.amount = max_stacks]
    /\ ret' = Returned(None)
    /\ pc' = pc
    /\ UNCHANGED <<zone, run_pc, engines, twin>>

\* EffectManager.on_turn_end(target, ctx) with ctx.attacker = target
OnTurnEndOf(target) ==
  /\ \E w \in {Collect(on_turn_end(World, target, target))} : Becomes(w)
  /\ call' = [NoCall EXCEPT !.op = "on_turn_end", !.self = target]
  /\ ret' = Returned(None)
  /\ pc' = pc
  /\ UNCHANGED <<zone, run_pc, engines, twin>>

OnTurnEnd == \E target \in Entities : OnTurnEndOf(target)

\* the pools the Resource operations are called on
Pools == {"hp", "sp", "durability"}

GetPool(w, p) ==
  CASE p = "hp" -> w.hp_res["player"]
    [] p = "sp" -> w.sp_res["player"]
    [] OTHER -> w.items["sword"].durability

SetPool(w, p, res) ==
  CASE p = "hp" -> [w EXCEPT !.hp_res["player"] = res]
    [] p = "sp" -> [w EXCEPT !.sp_res["player"] = res]
    [] OTHER -> [w EXCEPT !.items["sword"].durability = res]

\* Resource.add, through heal_hp / heal_sp for the pools of the player
ResourceAdd ==
  \E p \in Pools, amount \in (-MaxDelta)..MaxDelta :
    \E r \in {CASE p = "hp" -> heal_hp(World, "player", amount)
                [] p = "sp" -> heal_sp(World, "player", amount)
                [] OTHER -> [w |-> SetPool(World, p, add(GetPool(World, p), amount).res),
                             ret |-> add(GetPool(World, p), amount).delta]} :
      /\ Becomes(r.w)
      /\ call' = [NoCall EXCEPT !.op = "add", !.self = p, !.amount = amount]
      /\ ret' = r.ret
      /\ pc' = pc
      /\ UNCHANGED <<zone, run_pc, engines, twin>>

\* Resource.remove
ResourceRemove ==
  \E p \in Pools, amount \in (-MaxDelta)..MaxDelta :
    \E r \in {remove(GetPool(World, p), amount)} :
      /\ Becomes(SetPool(World, p, r.res))
      /\ call' = [NoCall EXCEPT !.op = "remove", !.self = p, !.amount = amount]
      /\ ret' = r.delta
      /\ pc' = pc
      /\ UNCHANGED <<zone, run_pc, engines, twin>>

\* Resource.set_maximum
ResourceSetMaximum ==
  \E p \in Pools, new_max \in (-1)..MaxNewMax, preserve_ratio \in BOOLEAN :
    /\ Becomes(SetPool(World, p, set_maximum(GetPool(World, p), new_max, preserve_ratio)))
    /\ call' = [NoCall EXCEPT !.op = "set_maximum", !.self = p, !.amount = new_max,
                              !.keep_ratio = preserve_ratio]
    /\ ret' = Returned(None)
    /\ pc' = pc
    /\ UNCHANGED <<zone, run_pc, engines, twin>>

\* the while guard of _run_battle
BothAlive == hp_res["player"].current > 0 /\ hp_res["enemy"].current > 0

\* one combatant's resolve_turn and the _apply_attack_effects that follows
AttackStep(a, d, next) ==
  \E id \in AttackIds :
    \E delta \in Deltas(Attacks[id]), roll \in Rolls :
      \E r \in {resolve_turn(World, a, d, Attacks[id], delta, roll)} :
       \E w \in {Collect(apply_attack_effects(r.w, a, d, Attacks[id], r.ret))} :
        /\ Becomes(w)
        /\ call' = [NoCall EXCEPT !.op = "resolve_turn", !.self = a, !.other = d,
                                  !.attack = id,
                                  !.delta = IF r.aborted THEN 0 ELSE delta,
                                  !.roll = IF r.aborted THEN 0 ELSE roll]
        /\ ret' = r.ret
        /\ pc' = next
        /\ UNCHANGED <<zone, run_pc, engines, twin>>

\* the K.O. check after a combatant's action, then _tick_end_of_turn
TickStep(a, d, next) ==
  IF hp_res["enemy"].current <= 0 \/ hp_res["player"].current <= 0
  THEN /\ pc' = "end"
       /\ UNCHANGED <<base_stats, hp_res, sp_res, equipment, items, effect_objs, active,
                      call, ret>>
       /\ UNCHANGED <<zone, run_pc, engines, twin>>
  ELSE \E r \in {tick_end_of_turn(World, a, d)} :
         /\ Becomes(Collect(r.w))
         /\ call' = [NoCall EXCEPT !.op = "on_turn_end", !.self = r.target]
         /\ ret' = Returned(None)
         /\ pc' = next
         /\ UNCHANGED <<zone, run_pc, engines, twin>>

\* _run_battle: the player's turn, an attack
PlayerAttack == pc = "player_turn" /\ BothAlive /\ AttackStep("player", "enemy", "player_tick")

\* _run_battle: the player's turn, changing equipment does not end the turn
BattleEquip == pc = "player_turn" /\ BothAlive /\ Equip

PlayerTick == pc = "player_tick" /\ TickStep("player", "enemy", "enemy_turn")

\* _run_battle: the enemy's turn
EnemyAttack == pc = "enemy_turn" /\ AttackStep("enemy", "player", "enemy_tick")

EnemyTick == pc = "enemy_tick" /\ TickStep("enemy", "player", "player_turn")

\* _run_battle: the while guard fails
BattleEnd ==
  /\ pc = "player_turn"
  /\ ~ BothAlive
  /\ pc' = "end"
  /\ UNCHANGED <<zone, run_pc, engines, twin>>
  /\ UNCHANGED <<base_stats, hp_res, sp_res, equipment, items, effect_objs, active,
                 call, ret>>

\* CombatEngine(seed=seed), twice with the same seed
Construct ==
  /\ engines = <<>>
  /\ \E seed \in Seeds :
       /\ engines' = <<Random(seed), Random(seed)>>
       /\ call' = [NoCall EXCEPT !.op = "CombatEngine", !.amount = seed]
  /\ ret' = Returned(None)
  /\ twin' = [w |-> World, ret |-> Returned(None)]
  /\ UNCHANGED <<base_stats, hp_res, sp_res, equipment, items, effect_objs, active, pc,
                 zone, run_pc>>

\* the same resolve_turn call issued to both engines, the first on the
\* combatants of the state and the second on their twins
SeededResolveTurn ==
  \E a \in Entities, d \in Entities, id \in AttackIds :
    /\ engines # <<>>
    /\ a # d
    /\ hp_res[a].current > 0
    /\ hp_res[d].current > 0
    /\ \E r1 \in {engine_resolve_turn(World, engine_rng(engines, 1), a, d, Attacks[id])} :
        \E e1 \in {[engines EXCEPT ![1] = r1.rng]} :
         \E r2 \in {engine_resolve_turn(twin.w, engine_rng(e1, 2), a, d, Attacks[id])} :
           /\ Becomes(r1.w)
           /\ ret' = r1.ret
           /\ twin' = [w |-> r2.w, ret |-> r2.ret]
           /\ engines' = [e1 EXCEPT ![2] = r2.rng]
           /\ call' = [NoCall EXCEPT !.op = "resolve_turn", !.self = a, !.other = d,
                                     !.attack = id]
           /\ pc' = pc
           /\ UNCHANGED <<zone, run_pc>>

\* the player and its twin equip the same item between two turns
SeededEquip ==
  \E i \in Gear :
    /\ engines # <<>>
    /\ Becomes(equip(World, "player", i))
    /\ twin' = [w |-> equip(twin.w, "player", i), ret |-> Returned(None)]
    /\ call' = [NoCall EXCEPT !.op = "equip", !.self = i, !.other = "player"]
    /\ ret' = Returned(None)
    /\ pc' = pc
    /\ UNCHANGED <<zone, run_pc, engines>>

\* the luck values _roll_crit is called with
Lucks == (-1)..4

\* CombatEngine._roll_crit(luck) on an engine whose _crit_func is f, the
\* generator returning roll / RollDen; p is the probability it compares with
RollCrit ==
  \E f \in CritFuncs, luck \in Lucks, roll \in 0..(RollDen - 1) :
    /\ call' = [NoCall EXCEPT !.op = "roll_crit", !.self = f, !.amount = luck,
                              !.roll = roll]
    /\ ret' = [p |-> clamp01(crit_func(f, luck)), was_crit |-> roll_crit_with(f, luck, roll)]
    /\ UNCHANGED <<base_stats, hp_res, sp_res, equipment, items, effect_objs, active, pc>>
    /\ UNCHANGED <<zone, run_pc, engines, twin>>

\* Inventory.use_consumable of a repair kit by the player
UseRepairKit ==
  \E target \in {"weapon", "armor"}, amount \in 1..MaxAmount :
    \E r \in {on_use_repair_equipment(World, "player", target, amount)} :
      /\ Becomes(r.w)
      /\ call' = [NoCall EXCEPT !.op = "use_repair", !.self = equipment["player"][target],
                                !.other = "player", !.amount = amount]
      /\ ret' = r.restored
      /\ pc' = pc
      /\ UNCHANGED <<zone, run_pc, engines, twin>>

\* durations and potencies stat buffs are made with (make_effect defaults
\* to duration 0)
BuffDurations == {0, 2}

BuffPotencies == {3, 4}

\* a stat buff made by make_effect and handed to EffectManager.apply, as the
\* event engine and the consumables do
ApplyBuff ==
  \E target \in Entities, duration \in BuffDurations, potency \in BuffPotencies,
     policy \in StackPolicy :
   \E max_stacks \in IF policy = "stack" THEN 1..MaxStacks ELSE {1} :
    \E m \in {make_effect(World, "blessing_atk", duration, potency)} :
     \E w \in {Collect(apply(m.w, target, m.ref, TRUE, policy, max_stacks))} :
      /\ Len(Listed(w)) <= MaxCopies
      /\ Becomes(w)
      /\ call' = [NoCall EXCEPT !.op = "apply", !.self = target, !.effect = duration,
                                !.policy = policy, !.amount = potency]
      /\ ret' = Returned(None)
      /\ pc' = pc
      /\ UNCHANGED <<zone, run_pc, engines, twin>>

\* EffectManager.on_turn_end(target, ctx) with ctx.attacker = target; what
\* is returned is ctx.events
TurnEnd ==
  \E target \in Entities :
    /\ \E w \in {Collect(on_turn_end(World, target, target))} : Becomes(w)
    /\ call' = [NoCall EXCEPT !.op = "on_turn_end", !.self = target]
    /\ ret' = turn_end_events(World, target)
    /\ pc' = pc
    /\ UNCHANGED <<zone, run_pc, engines, twin>>

\* the artifacts a player can equip from the inventory
Trinkets == {"amulet"}

\* Player.equip of an artifact
EquipArtifact ==
  \E i \in Trinkets :
    /\ Becomes(equip(World, "player", i))
    /\ call' = [NoCall EXCEPT !.op = "equip", !.self = i, !.other = "player"]
    /\ ret' = Returned(None)
    /\ pc' = pc
    /\ UNCHANGED <<zone, run_pc, engines, twin>>

\* Player.unequip("artifact")
UnequipArtifact ==
  /\ Becomes(unequip(World, "player", "artifact"))
  /\ call' = [NoCall EXCEPT !.op = "unequip", !.self = equipment["player"]["artifact"],
                            !.other = "player"]
  /\ ret' = Returned(None)
  /\ pc' = pc
  /\ UNCHANGED <<zone, run_pc, engines, twin>>

\* Equipment.degrade called on an artifact
DegradeArtifact ==
  \E i \in Trinkets, amount \in 1..MaxAmount :
    \E r \in {degrade(World, i, amount)} :
      /\ Becomes(r.w)
      /\ call' = [NoCall EXCEPT !.op = "degrade", !.self = i, !.amount = amount]
      /\ ret' = r.ret
      /\ pc' = pc
      /\ UNCHANGED <<zone, run_pc, engines, twin>>

\* Equipment.repair called on an artifact
RepairArtifact ==
  \E i \in Trinkets, amount \in 1..MaxAmount :
    \E r \in {repair(World, i, amount)} :
      /\ Becomes(r.w)
      /\ call' = [NoCall EXCEPT !.op = "repair", !.self = i, !.amount = amount]
      /\ ret' = r.ret
      /\ pc' = pc
      /\ UNCHANGED <<zone, run_pc, engines, twin>>

\* the objects of the combat core left alone by a step of GameLoop.run
RunFrame ==
  /\ UNCHANGED <<base_stats, sp_res, equipment, items, effect_objs, active, pc>>
  /\ UNCHANGED <<engines, twin>>

\* GameLoop.run: the outer while guard holds, on_zone_start
ZoneStart ==
  /\ run_pc = "zone_start"
  /\ hp_res["player"].current > 0
  /\ run_pc' = "sections"
  /\ call' = [NoCall EXCEPT !.op = "on_zone_start", !.amount = zone.level]
  /\ ret' = Returned(None)
  /\ UNCHANGED <<hp_res, zone>>
  /\ RunFrame

\* GameLoop.run: the inner while guard holds; a section is chosen and entered.
\* The section leaves the player with any health
EnterSection ==
  /\ run_pc = "sections"
  /\ hp_res["player"].current > 0
  /\ ~ boss_ready(zone)
  /\ \E options \in generate_section_choices :
       \E section \in choose_section(options) :
         \E hp \in 0..hp_res["player"].maximum, z \in zone_after_section(zone, section) :
           /\ hp_res' = [hp_res EXCEPT !["player"].current = hp]
           /\ zone' = z
           /\ call' = [NoCall EXCEPT !.op = "enter_section", !.self = section]
  /\ ret' = Returned(None)
  /\ run_pc' = "section_done"
  /\ RunFrame

\* GameLoop.run: the statement after _enter_section in the inner loop
SectionCleared ==
  /\ run_pc = "section_done"
  /\ zone' = IF hp_res["player"].current > 0 /\ call.self # "BOSS"
             THEN [zone EXCEPT !.explored = @ + 1]
             ELSE zone
  /\ run_pc' = "sections"
  /\ UNCHANGED <<hp_res, call, ret>>
  /\ RunFrame

\* GameLoop.run: the inner loop is left with the player alive, the boss
\* section is generated and entered
EnterBoss ==
  /\ run_pc = "sections"
  /\ hp_res["player"].current > 0
  /\ boss_ready(zone)
  /\ \E hp \in 0..hp_res["player"].maximum :
       hp_res' = [hp_res EXCEPT !["player"].current = hp]
  /\ call' = [NoCall EXCEPT !.op = "enter_section", !.self = generate_boss_section]
  /\ ret' = Returned(None)
  /\ run_pc' = "after_boss"
  /\ UNCHANGED zone
  /\ RunFrame

\* GameLoop.run: the player is dead, break
RunEnds ==
  /\ run_pc \in {"sections", "after_boss"}
  /\ hp_res["player"].current <= 0
  /\ run_pc' = "done"
  /\ UNCHANGED <<hp_res, zone, call, ret>>
  /\ RunFrame

\* GameLoop.run: on_zone_cleared, _choose_next_zone and the new Zone
NextZone ==
  /\ run_pc = "after_boss"
  /\ hp_res["player"].current > 0
  /\ zone.level < MaxLevel
  /\ zone' = Zone(zone.level + 1)
  /\ call' = [NoCall EXCEPT !.op = "choose_next_zone"]
  /\ ret' = Returned(None)
  /\ run_pc' = "zone_start"
  /\ UNCHANGED hp_res
  /\ RunFrame

----------------------------------------------------------------------------
(* Specifications *)

Next == ResolveTurn \/ Equip \/ Unequip \/ Degrade \/ Repair \/ SetQuality

Spec == Init /\ [][Next]_vars

\* the equipment life cycle alone: on_equip / on_unequip (through the
\* player), degrade and repair
LifecycleNext == Equip \/ Unequip \/ Degrade \/ Repair

LifecycleSpec == Init /\ [][LifecycleNext]_vars

\* the equipment operations, set_quality included
EquipmentNext == Equip \/ Unequip \/ Degrade \/ Repair \/ SetQuality

EquipmentSpec == Init /\ [][EquipmentNext]_vars

\* a battle: the resolver, and the player changing equipment between turns
CombatNext == ResolveTurn \/ Equip \/ Unequip

CombatSpec == Init /\ [][CombatNext]_vars

\* the effect registry alone
EffectNext == Apply \/ OnTurnEnd

EffectSpec == Init /\ [][EffectNext]_vars

\* the Resource operations alone
ResourceNext == ResourceAdd \/ ResourceRemove \/ ResourceSetMaximum

ResourceSpec == Init /\ [][ResourceNext]_vars

\* a battle as _run_battle drives it
BattleNext ==
  PlayerAttack \/ BattleEquip \/ PlayerTick \/ EnemyAttack \/ EnemyTick \/ BattleEnd

BattleSpec == Init /\ [][BattleNext]_vars

\* two engines built with the same seed, driven through the same calls
SeededNext == Construct \/ SeededResolveTurn \/ SeededEquip

SeededSpec == Init /\ [][SeededNext]_vars

\* the crit roll alone
CritSpec == Init /\ [][RollCrit]_vars
\* the equipment life cycle with both repair paths
ConsumableNext == Equip \/ Unequip \/ Degrade \/ Repair \/ UseRepairKit

ConsumableSpec == Init /\ [][ConsumableNext]_vars

\* stat buffs of any duration on the registry
BuffNext == ApplyBuff \/ TurnEnd

BuffSpec == Init /\ [][BuffNext]_vars

\* the life cycle of an artifact, and the resolver
ArtifactNext ==
  EquipArtifact \/ UnequipArtifact \/ DegradeArtifact \/ RepairArtifact \/ ResolveTurn

ArtifactSpec == Init /\ [][ArtifactNext]_vars

\* the effect registry when every bearer's turns keep ending: _run_battle
\* calls _tick_end_of_turn for each combatant in every round.  The step that
\* is the end-of-turn tick of target is the one that records this call, and
\* on_turn_end can always be called.
EndsTurn(target) == call' = [NoCall EXCEPT !.op = "on_turn_end", !.self = target]

TickingSpec ==
  Init /\ [][EffectNext]_vars /\ \A target \in Entities : WF_call(EndsTurn(target))

\* _run_battle never waits for ever: while the battle is on, the loop moves
\* to its next position (the player ends up choosing an attack, and every
\* other position is left at once)
Advances ==
  /\ pc # "end"
  /\ pc' \in {"player_turn", "player_tick", "enemy_turn", "enemy_tick", "end"} \ {pc}

BattleLiveSpec == Init /\ [][BattleNext]_vars /\ WF_pc(Advances)

\* the main loop over zones and sections
RunNext == ZoneStart \/ EnterSection \/ SectionCleared \/ EnterBoss \/ RunEnds \/ NextZone

RunSpec == Init /\ [][RunNext]_vars


----------------------------------------------------------------------------
(* Vocabulary of the properties *)

\* the step is a call of resolve_turn(a, d, Attacks[id])
IsResolve(a, d, id) ==
  call'.op = "resolve_turn" /\ call'.self = a /\ call'.other = d /\ call'.attack = id

\* the call just made returned through the cost check
Aborted(r) == r.events[1] = "not_enough_sp"

\* how much health entity e lost in the step
HealthLoss(e) == hp_res[e].current - hp_res'[e].current

\* the flat bonus item i gives to stat
FlatBonus(i, stat) ==
  IF stat = "attack" /\ ItemDef[i].kind = "weapon" THEN ItemDef[i].bonus_attack
  ELSE IF stat = "defense" /\ ItemDef[i].kind = "armor" THEN ItemDef[i].bonus_defense
  ELSE 0

RECURSIVE SumOver(_, _)
SumOver(S, stat) ==
  IF S = {} THEN 0
  ELSE LET i == CHOOSE x \in S : TRUE
       IN  FlatBonus(i, stat) + SumOver(S \ {i}, stat)

\* the items that entity e holds and that are not broken
FunctionalHeld(e) == {i \in ItemIds : items[i]._holder = e /\ items[i].durability.current > 0}

\* the stats the entities were built with
BuiltStats == [player |-> PlayerStats, enemy |-> EnemyStats]

----------------------------------------------------------------------------
(* Properties *)

\* C1: cost atomicity of resolve_turn.  When attack.cost > 0 exceeds the
\* attacker's action points the call returns damage_dealt = 0, was_crit =
\* FALSE and the single event not_enough_sp, and no health or action-point
\* pool changes; otherwise exactly cost action points leave the attacker's
\* pool and the defender's action points are untouched.
C1_CostAtomicity ==
  [][\A a \in Entities, d \in Entities, id \in AttackIds :
       IsResolve(a, d, id) =>
         IF Attacks[id].cost > 0 /\ Attacks[id].cost > sp_res[a].current
         THEN /\ ret'.damage_dealt = 0
              /\ ret'.was_crit = FALSE
              /\ ret'.events = <<"not_enough_sp">>
              /\ hp_res' = hp_res
              /\ sp_res' = sp_res
         ELSE /\ ~ Aborted(ret')
              /\ sp_res'[a].current = sp_res[a].current - Attacks[id].cost
              /\ sp_res'[a].maximum = sp_res[a].maximum
              /\ sp_res'[d] = sp_res[d]]_vars

\* C1 witness: the player, left with 3 action points after paying 5 of its
\* 8, is refused an attack that costs 5
C1_Witness ==
  /\ call.op = "resolve_turn"
  /\ call.self = "player"
  /\ Attacks[call.attack].cost = 5
  /\ sp_res["player"].current = 3
  /\ ret.events = <<"not_enough_sp">>
  /\ ret.damage_dealt = 0

\* C2: the attack's true damage is added after mitigation.  Every resolve_turn
\* that passes the cost check takes at least true_damage from the
\* defender's health (all of it, if the defender has less), and without a
\* crit, for an attack that ignores no defense, it takes
\* max(0, base + delta + attack - defense) + true_damage.
C2_TrueDamageAdded ==
  [][\A a \in Entities, d \in Entities, id \in AttackIds :
       (IsResolve(a, d, id) /\ ~ Aborted(ret')) =>
         LET atk == Attacks[id]
             mitigated == Max(0, atk.base_damage + call'.delta
                                   + effective_attack(World, Entity(World, a))
                                   - effective_defense(World, Entity(World, d)))
         IN  /\ HealthLoss(d) >= Min(atk.true_damage, hp_res[d].current)
             /\ (~ ret'.was_crit /\ atk.ignore_defense_pct = 0) =>
                  HealthLoss(d) = Min(mitigated + atk.true_damage, hp_res[d].current)]_vars

\* C3: the defense-ignore fraction reduces the defender's effective defense.
\* In particular an attack with ignore_defense_pct = 1 (100 percent) and no
\* true damage takes, without a crit, max(0, base + delta + attack) from the
\* defender's health, whatever the defender's defense is.
C3_IgnoreDefense ==
  [][\A a \in Entities, d \in Entities, id \in AttackIds :
       (/\ IsResolve(a, d, id)
        /\ ~ Aborted(ret')
        /\ ~ ret'.was_crit
        /\ Attacks[id].ignore_defense_pct = 100
        /\ Attacks[id].true_damage = 0) =>
         HealthLoss(d) = Min(Max(0, Attacks[id].base_damage + call'.delta
                                      + effective_attack(World, Entity(World, a))),
                             hp_res[d].current)]_vars

\* C4: damage_dealt is the actual decrease of the defender's health: it never
\* exceeds the defender's health before the call, and the health never
\* goes below 0.
C4_DamageDealtIsHealthLoss ==
  [][\A a \in Entities, d \in Entities, id \in AttackIds :
       IsResolve(a, d, id) =>
         /\ ret'.damage_dealt = HealthLoss(d)
         /\ ret'.damage_dealt <= hp_res[d].current
         /\ hp_res'[d].current >= 0]_vars

\* C5: with variance 0, cost 0, attacker luck 0 and no percentage modifier,
\* resolve_turn never crits and reports exactly max(0, base + attack -
\* defense); for attack 10 against defense 5 and health 50/50 with base 6
\* that is damage_dealt = 11, was_crit = FALSE and the defender at 39/50.
C5_NoCritExactDamage ==
  [][\A a \in Entities, d \in Entities, id \in AttackIds :
       (/\ IsResolve(a, d, id)
        /\ Attacks[id].variance = 0
        /\ Attacks[id].cost = 0
        /\ base_stats[a].luck = 0
        /\ gather_pct(World, Entity(World, a), "attack", 1) = 0
        /\ gather_pct(World, Entity(World, d), "defense", 1) = 0) =>
         /\ ret'.was_crit = FALSE
         /\ ret'.damage_dealt = Max(0, Attacks[id].base_damage + base_stats[a].attack
                                        - base_stats[d].defense)
         /\ (/\ Attacks[id].base_damage = 6
             /\ base_stats[a].attack = 10
             /\ base_stats[d].defense = 5
             /\ hp_res[d] = [current |-> 50, maximum |-> 50]) =>
              /\ ret'.damage_dealt = 11
              /\ hp_res'[d] = [current |-> 39, maximum |-> 50]]_vars

\* C5 witness: the scenario itself has been played
C5_Witness ==
  /\ call.op = "resolve_turn"
  /\ call.self = "player"
  /\ call.attack = "basic"
  /\ ret.damage_dealt = 11
  /\ ret.was_crit = FALSE
  /\ hp_res["enemy"] = [current |-> 39, maximum |-> 50]

\* C6: Functional/Broken invariant of flat-bonus equipment.  Under on_equip,
\* on_unequip, degrade and repair, an item's bonuses are active exactly when
\* it has a holder and durability.current > 0, and every entity's attack
\* and defense are the built values plus the flat bonuses of exactly the
\* items it holds that are not broken.
C6_FunctionalBroken ==
  /\ \A i \in ItemIds :
       ItemDef[i].kind \in {"weapon", "armor"} =>
         /\ bonuses_active(items[i]) <=>
              (items[i]._holder # None /\ items[i].durability.current > 0)
         /\ items[i]._bonuses_applied <=>
              (items[i]._holder # None /\ items[i].durability.current > 0)
  /\ \A e \in Entities :
       /\ base_stats[e].attack = BuiltStats[e].attack + SumOver(FunctionalHeld(e), "attack")
       /\ base_stats[e].defense = BuiltStats[e].defense + SumOver(FunctionalHeld(e), "defense")

\* C6 witness: the equipped sword has just broken and its +5 is gone
C6_Witness ==
  /\ call.op = "degrade"
  /\ call.self = "sword"
  /\ ret = TRUE
  /\ items["sword"]._holder = "player"
  /\ items["sword"].durability.current = 0
  /\ base_stats["player"].attack = PlayerStats.attack

\* C7: set_quality toggles bonuses as degrade and repair do.  When the
\* rescaling takes an equipped functional item to durability 0 its bonuses
\* leave the holder and are marked not applied; when it makes a broken
\* equipped item functional they are applied; otherwise stats and the mark
\* are unchanged.
C7_SetQualityToggles ==
  [][\A i \in Gear :
       (call'.op = "set_quality" /\ call'.self = i) =>
         LET held == items[i]._holder # None
             was_broken == is_broken(items[i])
             now_broken == is_broken(items'[i])
             stat == IF ItemDef[i].kind = "weapon" THEN "attack" ELSE "defense"
         IN  IF held /\ ~ was_broken /\ now_broken
             THEN /\ items'[i]._bonuses_applied = FALSE
                  /\ base_stats'["player"][stat] = base_stats["player"][stat] - FlatBonus(i, stat)
             ELSE IF held /\ was_broken /\ ~ now_broken
             THEN /\ items'[i]._bonuses_applied = TRUE
                  /\ base_stats'["player"][stat] = base_stats["player"][stat] + FlatBonus(i, stat)
             ELSE /\ items'[i]._bonuses_applied = items[i]._bonuses_applied
                  /\ base_stats' = base_stats]_vars

\* C8: break/repair symmetry.  A degrade that takes an equipped item to
\* durability 0 returns TRUE and takes its bonus from the holder once; degrade
\* on a broken item changes nothing; a repair that takes the broken item
\* above 0 returns TRUE and adds the bonus once; degrade(0) and repair(0)
\* (and negative amounts) change neither durability nor stats and return
\* FALSE.
C8_BreakRepairSymmetry ==
  [][\A i \in Gear :
       LET held == items[i]._holder # None
           stat == IF ItemDef[i].kind = "weapon" THEN "attack" ELSE "defense"
           bonus == IF held THEN FlatBonus(i, stat) ELSE 0
           before == items[i].durability.current
           after == items'[i].durability.current
       IN  /\ (call'.op = "degrade" /\ call'.self = i) =>
                IF call'.amount <= 0 \/ before = 0
                THEN ret' = FALSE /\ items' = items /\ base_stats' = base_stats
                ELSE IF after = 0
                THEN /\ ret' = TRUE
                     /\ base_stats' = [base_stats EXCEPT !["player"][stat] = @ - bonus]
                     /\ items'[i]._bonuses_applied = FALSE
                ELSE ret' = FALSE /\ base_stats' = base_stats
           /\ (call'.op = "repair" /\ call'.self = i) =>
                IF call'.amount <= 0
                THEN ret' = FALSE /\ items' = items /\ base_stats' = base_stats
                ELSE IF before = 0 /\ after > 0
                THEN /\ ret' = TRUE
                     /\ base_stats' = [base_stats EXCEPT !["player"][stat] = @ + bonus]
                     /\ items'[i]._bonuses_applied = held
                ELSE ret' = FALSE /\ base_stats' = base_stats]_vars

\* C8 witness: the broken equipped sword is repaired to durability 1 and its
\* +5 is back
C8_Witness ==
  /\ call.op = "repair"
  /\ call.self = "sword"
  /\ call.amount = 1
  /\ ret = TRUE
  /\ items["sword"]._holder = "player"
  /\ items["sword"].durability.current = 1
  /\ base_stats["player"].attack = PlayerStats.attack + 5

\* C9: equip then unequip restores the Stat Block.  Whenever no weapon of
\* the inventory is held the player's attack is the built value, whenever no
\* armor is held its defense is, whatever degrade, repair and set_quality
\* calls came in between; luck and the enemy's stats never change.
C9_EquipUnequipRestores ==
  /\ (\A i \in Gear : ItemDef[i].kind = "weapon" => items[i]._holder = None) =>
       base_stats["player"].attack = PlayerStats.attack
  /\ (\A i \in Gear : ItemDef[i].kind = "armor" => items[i]._holder = None) =>
       base_stats["player"].defense = PlayerStats.defense
  /\ base_stats["player"].luck = PlayerStats.luck
  /\ base_stats["enemy"] = EnemyStats

\* C9 witness: the sword is unequipped after set_quality took it to 0/0
\* and a degrade or repair was tried on it
C9_Witness ==
  /\ call.op = "unequip"
  /\ call.self = "sword"
  /\ items["sword"]._holder = None
  /\ items["sword"].durability = [current |-> 0, maximum |-> 0]
  /\ base_stats["player"].attack = PlayerStats.attack

\* C10: an attacker's equipped weapon at durability 1/1 with +5 attack is at
\* 0/1 after one resolve_turn that passes the cost check, and the attacker's
\* attack is then 5 lower.
C10_WeaponBreaksOnUse ==
  [][\A d \in Entities, id \in AttackIds :
       (/\ IsResolve("player", d, id)
        /\ ~ Aborted(ret')
        /\ equipment["player"].weapon = "sword"
        /\ items["sword"]._holder = "player"
        /\ items["sword"].durability = [current |-> 1, maximum |-> 1]
        /\ ItemDef["sword"].bonus_attack = 5) =>
         /\ items'["sword"].durability = [current |-> 0, maximum |-> 1]
         /\ base_stats'["player"].attack = base_stats["player"].attack - 5]_vars

\* C11: after every resolve_turn that passes the cost check the attacker's
\* functional weapon has lost exactly 1 durability, damage or not (a broken
\* weapon loses nothing more), and the weapon-broke event is in the result
\* exactly when the weapon went from durability > 0 to 0 in that call.
C11_WeaponWear ==
  [][\A a \in Entities, d \in Entities, id \in AttackIds :
       (/\ IsResolve(a, d, id)
        /\ ~ Aborted(ret')
        /\ equipment[a].weapon \in Gear) =>
         LET i == equipment[a].weapon
             before == items[i].durability.current
             after == items'[i].durability.current
         IN  /\ after = IF before > 0 THEN before - 1 ELSE before
             /\ ("weapon_broken" \in Range(ret'.events)) <=> (before > 0 /\ after = 0)]_vars

\* C12: the defender's armor wears only when damage_dealt > 0, a functional
\* armor then losing 1 durability; with damage_dealt = 0 its durability is
\* unchanged; the armor-broke event is in the result exactly when the armor
\* went from durability > 0 to 0 in that call.
C12_ArmorWear ==
  [][\A a \in Entities, d \in Entities, id \in AttackIds :
       (/\ IsResolve(a, d, id)
        /\ equipment[d].armor \in Gear) =>
         LET i == equipment[d].armor
             before == items[i].durability.current
             after == items'[i].durability.current
         IN  /\ after = IF ret'.damage_dealt > 0 /\ before > 0 THEN before - 1 ELSE before
             /\ ("armor_broken" \in Range(ret'.events)) <=> (before > 0 /\ after = 0)]_vars

\* the effects registered on e, in the order of the list
Registered(e) == [k \in 1..Len(active[e]) |-> effect_objs[active[e][k]]]

\* the same after the step
RegisteredAfter(e) == [k \in 1..Len(active'[e]) |-> effect_objs'[active'[e][k]]]

\* lst with every remaining duration one lower, without those that reach 0
RECURSIVE TickedList(_)
TickedList(lst) ==
  IF lst = <<>> THEN <<>>
  ELSE LET eff == [Head(lst) EXCEPT !.duration = @ - 1]
       IN  (IF eff.duration <= 0 THEN <<>> ELSE <<eff>>) \o TickedList(Tail(lst))

\* C13: each on_turn_end(target) lowers the remaining duration of every
\* effect registered on target, periodic effect or stat buff, by exactly 1,
\* and leaves no effect with remaining <= 0 registered on target.
C13_DurationMonotone ==
  [][\A target \in Entities :
       (call'.op = "on_turn_end" /\ call'.self = target) =>
         /\ RegisteredAfter(target) = TickedList(Registered(target))
         /\ \A k \in 1..Len(active'[target]) :
              effect_objs'[active'[target][k]].duration > 0]_vars

\* the positions of lst that hold an effect of the kind of eff
SameKindAt(lst, eff) == {k \in 1..Len(lst) : same_kind(lst[k], eff)}

\* C14: EffectManager.apply on a target that holds an effect of the same kind.
\* Refresh sets the (first) existing instance's duration to the new effect's
\* and adds none; Ignore changes nothing; Stack adds an instance only while
\* fewer than max_stacks of the kind are held.  Without one of the kind, an
\* instance is added.  So an apply with Refresh or Ignore never takes a kind
\* above one instance, and one with Stack never above max_stacks.
C14_StackPolicies ==
  [][\A target \in Entities :
       (call'.op = "apply" /\ call'.self = target) =>
         LET new == effect_objs[call'.effect]
             lst == Registered(target)
             same == SameKindAt(lst, new)
             n == Cardinality(same)
             after == RegisteredAfter(target)
             first == CHOOSE k \in same : \A j \in same : k <= j
         IN  /\ (n > 0 /\ call'.policy = "refresh") =>
                  after = [lst EXCEPT ![first].duration = new.duration]
             /\ (n > 0 /\ call'.policy = "ignore") =>
                  after = lst /\ base_stats' = base_stats
             /\ (call'.policy = "stack" /\ n >= call'.amount) =>
                  after = lst /\ base_stats' = base_stats
             /\ (n = 0 \/ (call'.policy = "stack" /\ n < call'.amount)) =>
                  after = Append(lst, new)
             /\ Cardinality(SameKindAt(after, new)) <=
                  Max(n, IF call'.policy = "stack" THEN call'.amount ELSE 1)]_vars

\* C14 witness: the player's poison, one tick old, has been refreshed to the
\* full duration and is still the only one
C14_Witness ==
  /\ call.op = "apply"
  /\ call.self = "player"
  /\ call.policy = "refresh"
  /\ call.effect = 1
  /\ hp_res["player"].current = PoolMax["player"].hp - PoisonTemplate.potency
  /\ Registered("player") = <<PoisonTemplate>>

\* C15: every application stores its own copy.  No object is registered
\* twice, no template is registered; ticking, refreshing or expiring effects
\* of one combatant changes no effect registered on the other, a refresh
\* changes no other instance of the list, and no step changes a template.
C15_NoAliasing ==
  [][/\ \A r \in TemplateRefs : effect_objs'[r] = effect_objs[r]
     /\ \A r \in TemplateRefs : r \notin Range(active'["player"] \o active'["enemy"])
     /\ Cardinality(Range(active'["player"] \o active'["enemy"]))
          = Len(active'["player"] \o active'["enemy"])
     /\ \A target \in Entities, other \in Entities :
          (call'.op \in {"apply", "on_turn_end"} /\ call'.self = target /\ other # target) =>
            RegisteredAfter(other) = Registered(other)
     /\ \A target \in Entities :
          (call'.op = "apply" /\ call'.self = target) =>
            \A k \in 1..Len(active[target]) :
              (RegisteredAfter(target)[k] # Registered(target)[k]) =>
                /\ call'.policy = "refresh"
                /\ \A j \in 1..(k - 1) :
                     ~ same_kind(Registered(target)[j], effect_objs[call'.effect])]_vars

\* C15 witness: both combatants hold a poison from the same template, the
\* player's has ticked once, the enemy's has not
C15_Witness ==
  /\ call.op = "on_turn_end"
  /\ call.self = "player"
  /\ Len(active["player"]) = 1
  /\ Len(active["enemy"]) = 1
  /\ Registered("player")[1] = [PoisonTemplate EXCEPT !.duration = 1]
  /\ Registered("enemy")[1] = PoisonTemplate
  /\ effect_objs[1] = PoisonTemplate

\* the step is combatant a's resolve_turn in the battle loop
Resolves(a) ==
  /\ pc \in {"player_turn", "enemy_turn"}
  /\ pc' \in {"player_tick", "enemy_tick"}
  /\ call'.op = "resolve_turn"
  /\ call'.self = a

\* the step is the battle loop's end-of-turn tick of combatant c
Ticks(c) ==
  /\ pc \in {"player_tick", "enemy_tick"}
  /\ pc' \in {"player_turn", "enemy_turn"}
  /\ call'.op = "on_turn_end"
  /\ call'.self = c

\* the step is the player changing equipment during its turn
Equips == pc = "player_turn" /\ pc' = "player_turn" /\ call'.op = "equip"

C17_EffectsOnlyOnHit ==
  [][\A a \in Entities :
       (Resolves(a) /\ (Aborted(ret') \/ ret'.damage_dealt = 0)) =>
         /\ \A e \in Entities : RegisteredAfter(e) = Registered(e)
         /\ base_stats' = base_stats]_vars

\* C18: the battle loop never calls resolve_turn with a dead combatant, end-of-
\* turn ticks included: at every resolve_turn both have health > 0.
C18_NoDeadCombatant ==
  [][\A a \in Entities :
       Resolves(a) => \A e \in Entities : hp_res[e].current > 0]_vars

C20_NegativeAmountNoOp ==
  [][\A p \in Pools :
       (call'.op \in {"add", "remove"} /\ call'.self = p /\ call'.amount < 0) =>
         /\ GetPool([hp_res |-> hp_res', sp_res |-> sp_res', items |-> items'], p)
              = GetPool(World, p)
         /\ ret' = 0]_vars
C28_AbortFrame ==
  [][(engines # <<>> /\ call'.op = "resolve_turn" /\ Aborted(ret'))
       => /\ engines' = engines
          /\ items' = items
          /\ base_stats' = base_stats
          /\ hp_res' = hp_res
          /\ ret'.events = <<"not_enough_sp">>
          /\ ret'.damage_dealt = 0]_vars

\* an aborted turn after turns that drew from the generator
C28_Witness ==
  /\ engines # <<>>
  /\ call.op = "resolve_turn"
  /\ Aborted(ret)
  /\ engines[1] \notin Seeds

\* the default curve at luck l, as a number of 1 / 100^m for m >= max(0, l)
CurveAt(l, m) == default_crit_from_luck(l).num * Pow(100, m - Max(0, l))

C23_RepairReapplies ==
  [][\A i \in Gear :
       LET stat == IF ItemDef[i].kind = "weapon" THEN "attack" ELSE "defense"
       IN  ( /\ items[i]._holder = "player"
             /\ items'[i]._holder = "player"
             /\ items[i].durability.current = 0
             /\ items'[i].durability.current > 0 )
           => /\ items'[i]._bonuses_applied
              /\ base_stats'["player"][stat] = base_stats["player"][stat] + FlatBonus(i, stat)]_vars

\* the potencies of the attack buffs registered on e, added up
RECURSIVE BuffSum(_, _)
BuffSum(lst, k) ==
  IF k > Len(lst) THEN 0
  ELSE (IF lst[k].cls = "AttackBuffEffect" THEN lst[k].potency ELSE 0) + BuffSum(lst, k + 1)

C27_EffectsExpire ==
  <>[][call'.op # "apply"]_vars => <>[](\A e \in Entities : active[e] = <<>>)

\* C29: every battle run by _run_battle eventually ends, with the player or
\* the enemy at 0 health, when the player keeps choosing attacks
C29_BattleTerminates ==
  [](call.op # "equip") =>
    <>(pc = "end" /\ (hp_res["player"].current = 0 \/ hp_res["enemy"].current = 0))

\* C30: in GameLoop.run the boss section is entered only once zone.explored has
\* reached 4; after a section of the inner loop, explored grows by exactly 1
\* when the player survived it and it is not a boss section, and not at all
\* otherwise; the boss section leaves the zone as it is; and once the boss
\* section is survived the next zone has the level of the previous one plus 1
\* and explored = 0
C30_ZoneProgress ==
  [][ /\ (run_pc # "after_boss" /\ run_pc' = "after_boss") =>
           /\ zone.explored >= 4
           /\ call'.self = "BOSS"
           /\ zone' = zone
      /\ run_pc = "section_done" =>
           zone' = [zone EXCEPT !.explored =
                      @ + (IF hp_res["player"].current > 0 /\ call.self # "BOSS"
                           THEN 1 ELSE 0)]
      /\ (call'.op = "enter_section" /\ call'.self # "BOSS" /\ call' # call) =>
           zone.explored < 4
      /\ (run_pc = "after_boss" /\ hp_res["player"].current > 0) =>
           /\ zone' = [level |-> zone.level + 1, explored |-> 0]
           /\ run_pc' = "zone_start"
      /\ (run_pc = "after_boss" /\ hp_res["player"].current <= 0) =>
           /\ zone' = zone
           /\ run_pc' = "done" ]_vars

C30_Witness ==
  /\ run_pc = "after_boss"
  /\ zone = [level |-> 2, explored |-> 4]
  /\ call.op = "enter_section"
  /\ call.self = "BOSS"
  /\ hp_res["player"].current > 0
====
